---- MODULE Spec2Model ----
(***************************************************************************)
(* Model of src/main.py: the retry wrapper call_with_retry, the per-stock  *)
(* gates of check_stock_criteria, the deep-scan loop of                    *)
(* run_strict_selection, and the sector history / novelty part of run_task.*)
(*                                                                         *)
(* Three state machines share the module:                                 *)
(*   SpecRetry    call_with_retry alone, for every max_retries and delay   *)
(*   Spec         the deep scan: run_strict_selection's loop calling       *)
(*                check_stock_criteria, which calls call_with_retry        *)
(*   SpecHistory  run_task's sector history across runs and days           *)
(***************************************************************************)
EXTENDS Integers, Sequences, FiniteSets, TLC

\* ---------------------------------------------------------------- bounds
\* largest max_retries explored for call_with_retry on its own
MaxRetries == 5
\* largest delay explored for call_with_retry on its own
MaxDelay == 2
\* largest number of candidates in check_list
MaxPool == 2
\* largest number of daily bars the history provider returns
MaxBars == 5
\* largest prior-day volume
MaxVolYest == 1
\* largest number of rows of a capital-flow table
MaxFlowRows == 4
\* number of calendar days the clock can advance over
MaxDay == 6
\* number of runs of run_task
MaxRuns == 2

\* ------------------------------------------------------ program constants
\* call_with_retry(func, max_retries=3, delay=2, ...)
DefaultMaxRetries == 3
DefaultDelay == 2
\* len(df) < 5
MinBars == 5
\* cum_rise >= 10
RiseCap == 10
\* vol_today > vol_yest * 3.0
VolCeil == 3
\* df_flow.tail(3)
FlowTail == 3
\* timedelta(days=5)
RetentionDays == 5

VARIABLES
    \* call_with_retry: one activation
    r_pc,        \* "idle" | "call" (about to invoke func) | "sleep" |
                 \* "ret_none" (range(0): about to fall through) | "ret" | "raised"
    r_func,      \* which provider function is wrapped
    r_max,       \* max_retries
    r_delay,     \* delay
    r_i,         \* the loop variable i
    r_log,       \* outcome of every invocation of func so far: the value it
                 \* returned, or "exc" when it raised
    r_wait,      \* total of the wait_time values slept
    r_ret,       \* the value returned to the caller
    \* check_stock_criteria: one activation
    c_pc,        \* "idle" | "fetch_hist" | "fetch_flow" | "ret"
    df,          \* the history table as fetched
    df_flow,     \* the flow table as fetched
    res,         \* the return value
    calls,       \* provider functions invoked for this candidate, in order
    \* run_strict_selection: the deep scan
    s_pc,        \* "idle" | "loop" (at the for) | "check" (in the body) | "done"
    check_list,  \* the candidates entered into the deep scan
    idx,         \* position of the loop in check_list
    selected_stocks,
    verdicts,    \* what check_stock_criteria returned for each candidate evaluated
    aborted,     \* the except clause of run_strict_selection ran
    \* run_task: sector history
    t_pc,        \* "idle" | "sector" | "load" | "detect" | "select" | "save"
    now,         \* the calendar day of the clock (an ordinal)
    hfile,       \* concept_history.json: date string -> sector names
    today_str,
    top_concepts,
    history_data,
    cutoff_date,
    new_concepts,
    runs

retry_vars == <<r_pc, r_func, r_max, r_delay, r_i, r_log, r_wait, r_ret>>
crit_vars == <<c_pc, df, df_flow, res>>
scan_vars == <<s_pc, check_list, idx, selected_stocks, verdicts, aborted>>
task_vars == <<t_pc, now, hfile, today_str, top_concepts, history_data,
               cutoff_date, new_concepts, runs>>
vars == <<retry_vars, calls, crit_vars, scan_vars, task_vars>>

\* Values are records tagged by kind. Python's None, the marker of a local
\* that is not assigned yet, and an invocation that raised:
None == [kind |-> "None"]
Unset == [kind |-> "unset"]
Exc == [kind |-> "exc"]

RECURSIVE Pow2(_)
Pow2(n) == IF n = 0 THEN 1 ELSE 2 * Pow2(n - 1)

\* ------------------------------------------------------- call_with_retry
\* What a provider function can return when it does not raise.
TestResults == {[kind |-> "value", v |-> "v1"], [kind |-> "value", v |-> "v2"]}

\* ---- the tables the market-data provider returns
\* 开盘 and 收盘 of one session: a red, a flat and a green candle
Candles == {<<2, 1>>, <<1, 1>>, <<1, 2>>}
\* 涨跌幅, in percent
PctVals == {-2, 0, 2, 4}
\* 成交量 of yesterday and of today (today reaches past VolCeil times yesterday)
VolsYest == 0..MaxVolYest
VolsToday == 0..(VolCeil * MaxVolYest + 1)
\* 主力净流入 of one session
FlowVals == {-1, 1}

\* One daily bar. A history table is modelled by its number of rows, whether
\* it has the columns the code reads (开盘, 收盘, 涨跌幅, 成交量), and, when
\* it has at least MinBars rows, its last three bars in date order: no other
\* row is read (recent.iloc[-3:], iloc[-2], iloc[-1]). The volume three
\* sessions back is never read and is fixed.
Bars ==
    {[open |-> c[1], close |-> c[2], pct |-> p, vol |-> v] :
        c \in Candles, p \in PctVals, v \in VolsToday}

HistTables ==
    {[kind |-> "table", n |-> k, cols |-> c, bars |-> <<>>] :
        k \in 0..(MinBars - 1), c \in BOOLEAN}
    \cup {[kind |-> "table", n |-> k, cols |-> FALSE, bars |-> <<>>] :
        k \in MinBars..MaxBars}
    \cup {[kind |-> "table", n |-> k, cols |-> TRUE, bars |-> <<b3, b2, b1>>] :
        k \in MinBars..MaxBars,
        b3 \in {b \in Bars : b.vol = 0},
        b2 \in {b \in Bars : b.vol \in VolsYest},
        b1 \in Bars}

RECURSIVE SeqsUpTo(_, _)
SeqsUpTo(S, n) ==
    IF n = 0 THEN {<<>>}
    ELSE LET shorter == SeqsUpTo(S, n - 1) IN
         shorter \cup {Append(q, x) : q \in {t \in shorter : Len(t) = n - 1}, x \in S}

\* A flow table: its 主力净流入 column in date order, or a table without
\* that column (an empty DataFrame has no columns at all).
FlowTables ==
    {[kind |-> "table", cols |-> TRUE, rows |-> q] : q \in SeqsUpTo(FlowVals, MaxFlowRows)}
    \cup {[kind |-> "table", cols |-> FALSE, rows |-> <<>>]}

FuncResults(f) ==
    CASE f = "test" -> TestResults
      [] f = "stock_zh_a_hist_df_cf" -> HistTables
      [] f = "stock_individual_fund_flow" -> FlowTables
      [] OTHER -> {}

\* for i in range(max_retries): the loop runs while i < max_retries
InRange(i, max_retries) == i < max_retries

\* A handler that re-raises on the last attempt instead of returning None.
OnExceptionReraise(i, max_retries) ==
    IF i = max_retries - 1 THEN "raise" ELSE "sleep"

\* except Exception as e: if i == max_retries - 1: return None; else sleep
OnException(i, max_retries) ==
    IF i = max_retries - 1 THEN "return_none" ELSE "sleep"

\* wait_time = delay * (2 ** i)
WaitTime(delay, i) == delay * Pow2(i)

\* call_with_retry(func, max_retries, delay) is entered
RetryStart(f, max_retries, delay) ==
    /\ r_func' = f
    /\ r_max' = max_retries
    /\ r_delay' = delay
    /\ r_i' = 0
    /\ r_log' = <<>>
    /\ r_wait' = 0
    /\ r_ret' = Unset
    /\ r_pc' = IF InRange(0, max_retries) THEN "call" ELSE "ret_none"

\* The caller has taken the return value: the activation is gone
RetryLeave ==
    /\ r_pc' = "idle" /\ r_func' = "test" /\ r_max' = 0 /\ r_delay' = 0
    /\ r_i' = 0 /\ r_log' = <<>> /\ r_wait' = 0 /\ r_ret' = Unset

\* return func(*args, **kwargs): func returns v
R_FuncReturns ==
    /\ r_pc = "call"
    /\ \E v \in FuncResults(r_func) :
          /\ r_ret' = v
          /\ r_log' = Append(r_log, v)
    /\ r_pc' = "ret"
    /\ calls' = Append(calls, r_func)
    /\ UNCHANGED <<r_func, r_max, r_delay, r_i, r_wait>>
    /\ UNCHANGED <<crit_vars, scan_vars, task_vars>>

\* func raises an Exception: the except clause
R_FuncRaises ==
    /\ r_pc = "call"
    /\ r_log' = Append(r_log, Exc)
    /\ calls' = Append(calls, r_func)
    /\ LET h == OnException(r_i, r_max) IN
          /\ r_pc' = CASE h = "return_none" -> "ret"
                       [] h = "sleep" -> "sleep"
                       [] OTHER -> "raised"
          /\ r_ret' = IF h = "return_none" THEN None ELSE r_ret
          /\ r_wait' = IF h = "sleep" THEN r_wait + WaitTime(r_delay, r_i) ELSE r_wait
    /\ UNCHANGED <<r_func, r_max, r_delay, r_i>>
    /\ UNCHANGED <<crit_vars, scan_vars, task_vars>>

\* time.sleep(wait_time) ends; the for loop takes its next i, or ends and
\* the function returns None at its last line
R_Wake ==
    /\ r_pc = "sleep"
    /\ r_i' = r_i + 1
    /\ IF InRange(r_i + 1, r_max)
          THEN r_pc' = "call" /\ r_ret' = r_ret
          ELSE r_pc' = "ret" /\ r_ret' = None
    /\ UNCHANGED <<r_func, r_max, r_delay, r_log, r_wait, calls>>
    /\ UNCHANGED <<crit_vars, scan_vars, task_vars>>

\* range(0) is empty: the function falls through to its last line
R_EmptyRange ==
    /\ r_pc = "ret_none"
    /\ r_pc' = "ret"
    /\ r_ret' = None
    /\ UNCHANGED <<r_func, r_max, r_delay, r_i, r_log, r_wait, calls>>
    /\ UNCHANGED <<crit_vars, scan_vars, task_vars>>

\* -------------------------------------------------- check_stock_criteria
\* if df is None or len(df) < 5
InsufficientOffByOne(t) == t.kind = "None" \/ t.n <= MinBars

Insufficient(t) == t.kind = "None" \/ t.n < MinBars

\* last_3_days = recent.iloc[-3:]; today and yesterday
last_3_days(t) == t.bars
today(t) == t.bars[3]
yesterday(t) == t.bars[2]

\* all((row['收盘'] >= row['开盘']) and (row['涨跌幅'] > 0) for row in last_3_days)
is_all_up(t) ==
    \A k \in 1..Len(last_3_days(t)) :
        /\ last_3_days(t)[k].close >= last_3_days(t)[k].open
        /\ last_3_days(t)[k].pct > 0

\* last_3_days['涨跌幅'].sum()
cum_rise(t) == last_3_days(t)[1].pct + last_3_days(t)[2].pct + last_3_days(t)[3].pct

RiseTooLargeStrict(c) == c > RiseCap

\* if cum_rise >= 10: return None
RiseTooLarge(c) == c >= RiseCap

VolNotAboveStrict(vol_today, vol_yest) == vol_today < vol_yest

\* if vol_today <= vol_yest: return None
VolNotAbove(vol_today, vol_yest) == vol_today <= vol_yest

VolOverCeilNever(vol_today, vol_yest) == FALSE

\* if vol_today > (vol_yest * 3.0): return None
VolOverCeil(vol_today, vol_yest) == vol_today > vol_yest * VolCeil

\* Lines 63-82, once the history fetch has returned t: the line of the
\* return statement taken, 105 for a fault caught by the function's
\* except clause (a missing column raises KeyError at line 71), or "pass"
\* when the function goes on to the flow fetch. Reading a table never
\* divides, so a zero volume raises nothing.
Gates(t) ==
    IF Insufficient(t) THEN "63"
    ELSE IF ~t.cols THEN "105"
    ELSE IF ~is_all_up(t) THEN "72"
    ELSE IF RiseTooLarge(cum_rise(t)) THEN "76"
    ELSE IF VolNotAbove(today(t).vol, yesterday(t).vol) THEN "81"
    ELSE IF VolOverCeil(today(t).vol, yesterday(t).vol) THEN "82"
    ELSE "pass"

RECURSIVE SumSeq(_)
SumSeq(q) == IF q = <<>> THEN 0 ELSE Head(q) + SumSeq(Tail(q))

\* df.tail(k): the last k rows, all of them when there are fewer
TailRows(q, k) ==
    IF Len(q) <= k THEN q ELSE SubSeq(q, Len(q) - k + 1, Len(q))

\* df_flow.tail(3)['主力净流入'].sum()
flow_sum(f) == SumSeq(TailRows(f.rows, FlowTail))

FlowRejectsNegativeOnly(s) == s < 0

\* if flow_sum <= 0: return None
FlowRejects(s) == s <= 0

\* Lines 85-94, once the flow fetch has returned f: the line of the return
\* taken, or "pass". A table without the column raises KeyError at line 89,
\* which the bare except of line 93 turns into return None.
FlowGate(f) ==
    IF f.kind = "None" THEN "92"
    ELSE IF ~f.cols THEN "94"
    ELSE IF FlowRejects(flow_sum(f)) THEN "90"
    ELSE "pass"

\* The dict returned at lines 96-103, by its symbol and cum_rise (name,
\* price, dde and mkt_cap are copied through and not modelled). 涨跌幅 is
\* in whole percent here, on which round(cum_rise, 2) changes nothing.
Result(symbol, t) ==
    [kind |-> "result", symbol |-> symbol, cum_rise |-> cum_rise(t)]

\* check_stock_criteria(symbol, ...) is entered: line 61 calls
\* call_with_retry(ak.stock_zh_a_hist_df_cf, ...) with the defaults
CritStart ==
    /\ c_pc' = "fetch_hist"
    /\ df' = Unset
    /\ df_flow' = Unset
    /\ res' = Unset
    /\ calls' = <<>>
    /\ RetryStart("stock_zh_a_hist_df_cf", DefaultMaxRetries, DefaultDelay)

\* Lines 61-82: the history fetch has returned; the three price/volume
\* gates are evaluated and either return None or go on to line 87, the call
\* call_with_retry(ak.stock_individual_fund_flow, ...)
C_Gates ==
    /\ c_pc = "fetch_hist"
    /\ r_pc = "ret"
    /\ df' = r_ret
    /\ IF Gates(r_ret) = "pass"
          THEN /\ c_pc' = "fetch_flow"
               /\ RetryStart("stock_individual_fund_flow", DefaultMaxRetries, DefaultDelay)
               /\ UNCHANGED <<res>>
          ELSE /\ c_pc' = "ret"
               /\ res' = None
               /\ RetryLeave
    /\ UNCHANGED <<df_flow, calls, scan_vars, task_vars>>

\* Lines 87-103: the flow fetch has returned; the capital-flow gate, then
\* the result
C_FlowGate ==
    /\ c_pc = "fetch_flow"
    /\ r_pc = "ret"
    /\ df_flow' = r_ret
    /\ res' = IF FlowGate(r_ret) = "pass" THEN Result(check_list[idx], df) ELSE None
    /\ c_pc' = "ret"
    /\ RetryLeave
    /\ UNCHANGED <<df, calls, scan_vars, task_vars>>

\* --------------------------------------------------- run_strict_selection
\* Leaving check_stock_criteria: its locals are gone
CritLeave ==
    /\ c_pc' = "idle" /\ df' = Unset /\ df_flow' = Unset /\ res' = Unset
    /\ calls' = <<>>

\* for _, row in check_list.iterrows(): res = check_stock_criteria(...)
S_Check ==
    /\ s_pc = "loop"
    /\ idx < Len(check_list)
    /\ idx' = idx + 1
    /\ s_pc' = "check"
    /\ CritStart
    /\ UNCHANGED <<check_list, selected_stocks, verdicts, aborted, task_vars>>

\* if res: is false; time.sleep(...) and the next iteration
S_Rejected ==
    /\ s_pc = "check"
    /\ c_pc = "ret"
    /\ res = None
    /\ verdicts' = Append(verdicts, "None")
    /\ s_pc' = "loop"
    /\ CritLeave
    /\ UNCHANGED <<retry_vars, check_list, idx, selected_stocks, aborted, task_vars>>

\* if res: res['mkt_cap'] = round(row['总市值'] / 100000000, 2);
\* selected_stocks.append(res): the market capitalisation is a number
S_Selected ==
    /\ s_pc = "check"
    /\ c_pc = "ret"
    /\ res # None
    /\ verdicts' = Append(verdicts, "result")
    /\ selected_stocks' = Append(selected_stocks, res)
    /\ s_pc' = "loop"
    /\ CritLeave
    /\ UNCHANGED <<retry_vars, check_list, idx, aborted, task_vars>>

\* if res: row['总市值'] / 100000000 raises TypeError (the value is None or
\* text: nothing before the loop reads it as a number). The exception leaves
\* the for loop and is caught by except Exception of line 184, which prints
\* and falls through to return selected_stocks.
S_MktCapFault ==
    /\ s_pc = "check"
    /\ c_pc = "ret"
    /\ res # None
    /\ verdicts' = Append(verdicts, "result")
    /\ aborted' = TRUE
    /\ s_pc' = "done"
    /\ CritLeave
    /\ UNCHANGED <<retry_vars, check_list, idx, selected_stocks, task_vars>>

\* the for loop is exhausted: return selected_stocks
S_Return ==
    /\ s_pc = "loop"
    /\ idx = Len(check_list)
    /\ s_pc' = "done"
    /\ UNCHANGED <<retry_vars, calls, crit_vars, check_list, idx, selected_stocks,
                   verdicts, aborted, task_vars>>

\* --------------------------------------------------------------- run_task
\* Sector names, and the top lists the sector step can produce (the 涨跌幅
\* paired with each name goes to the report only and is not modelled)
Names == {"A", "B"}
TopLists ==
    {<<>>} \cup {<<n>> : n \in Names}
    \cup {<<p[1], p[2]>> : p \in {q \in Names \X Names : q[1] # q[2]}}

\* The clock: day 1 is 2025-12-24, so the days run over the end of a month
\* and of a year. The first run is on day RetentionDays + 1.
FirstDay == RetentionDays + 1
LastDay == FirstDay + MaxDay - 1
YearOf(k) == IF k <= 8 THEN 2025 ELSE 2026
MonthOf(k) == IF k <= 8 THEN 12 ELSE 1
DayOf(k) == IF k <= 8 THEN 23 + k ELSE k - 8

\* A string is the sequence of its characters' code points: '-' is 45 and
\* the digits follow from 48
Dash == 45
Digit(d) == 48 + d

\* strftime('%Y-%m-%d') of day k: zero-padded year, month and day
strftime(k) ==
    LET y == YearOf(k)
        m == MonthOf(k)
        d == DayOf(k)
    IN <<Digit(y \div 1000), Digit((y \div 100) % 10), Digit((y \div 10) % 10), Digit(y % 10),
         Dash, Digit(m \div 10), Digit(m % 10),
         Dash, Digit(d \div 10), Digit(d % 10)>>

\* a > b on Python strings: by the first differing character, a proper
\* prefix being the smaller
RECURSIVE StrGreater(_, _)
StrGreater(a, b) ==
    IF a = <<>> THEN FALSE
    ELSE IF b = <<>> THEN TRUE
    ELSE IF Head(a) # Head(b) THEN Head(a) > Head(b)
    ELSE StrGreater(Tail(a), Tail(b))

InList(n, l) == \E k \in 1..Len(l) : l[k] = n

\* for d, names in history_data.items():
\*     if d > cutoff_date and d != today_str: past_set.update(names)
past_set(h, cutoff, today_s) ==
    {n \in Names : \E d \in DOMAIN h :
        /\ StrGreater(d, cutoff)
        /\ d # today_s
        /\ InList(n, h[d])}

\* [n for n, r in top_concepts if n not in past_set]
RECURSIVE NotIn(_, _)
NotIn(l, S) ==
    IF l = <<>> THEN <<>>
    ELSE IF Head(l) \in S THEN NotIn(Tail(l), S)
    ELSE <<Head(l)>> \o NotIn(Tail(l), S)

\* history_data[today_str] = [x[0] for x in top_concepts]
Put(h, key, names) ==
    [d \in (DOMAIN h) \cup {key} |-> IF d = key THEN names ELSE h[d]]

AlwaysSave(top) == TRUE

\* if top_concepts:
ShouldSave(top) == top # <<>>

\* The clock passes midnight; it can do so while a run is under way
Tick ==
    /\ now < LastDay
    /\ now' = now + 1
    /\ UNCHANGED <<t_pc, hfile, today_str, top_concepts, history_data,
                   cutoff_date, new_concepts, runs>>
    /\ UNCHANGED <<retry_vars, calls, crit_vars, scan_vars>>

\* today_str = datetime.now().strftime('%Y-%m-%d')
T_Start ==
    /\ t_pc = "idle"
    /\ runs < MaxRuns
    /\ runs' = runs + 1
    /\ today_str' = strftime(now)
    /\ top_concepts' = <<>>
    /\ history_data' = <<>>
    /\ cutoff_date' = <<>>
    /\ new_concepts' = <<>>
    /\ t_pc' = "sector"
    /\ UNCHANGED <<now, hfile>>
    /\ UNCHANGED <<retry_vars, calls, crit_vars, scan_vars>>

\* Step A: the sector table is fetched, sorted, filtered and cut to its
\* first 10 names; a failed fetch or a fault leaves top_concepts = []
T_Sector ==
    /\ t_pc = "sector"
    /\ \E l \in TopLists : top_concepts' = l
    /\ t_pc' = "load"
    /\ UNCHANGED <<now, hfile, today_str, history_data, cutoff_date, new_concepts, runs>>
    /\ UNCHANGED <<retry_vars, calls, crit_vars, scan_vars>>

\* history_data = {}; if the file exists: try json.load, except: pass
\* (line 291 puts "try:" and "with" on one line; it is read as the try
\* block it is meant to be). A missing file is the empty hfile.
T_Load ==
    /\ t_pc = "load"
    /\ \E readable \in BOOLEAN : history_data' = IF readable THEN hfile ELSE <<>>
    /\ t_pc' = "detect"
    /\ UNCHANGED <<now, hfile, today_str, top_concepts, cutoff_date, new_concepts, runs>>
    /\ UNCHANGED <<retry_vars, calls, crit_vars, scan_vars>>

\* Step B: cutoff_date = (datetime.now() - timedelta(days=5)).strftime(..),
\* a second reading of the clock; past_set; new_concepts
T_Detect ==
    /\ t_pc = "detect"
    /\ cutoff_date' = strftime(now - RetentionDays)
    /\ new_concepts' =
          NotIn(top_concepts, past_set(history_data, strftime(now - RetentionDays), today_str))
    /\ t_pc' = "select"
    /\ UNCHANGED <<now, hfile, today_str, top_concepts, history_data, runs>>
    /\ UNCHANGED <<retry_vars, calls, crit_vars, scan_vars>>

\* Steps C-E: run_strict_selection, the report files, the notification.
\* None of them reads or writes the history.
T_Select ==
    /\ t_pc = "select"
    /\ t_pc' = "save"
    /\ UNCHANGED <<now, hfile, today_str, top_concepts, history_data,
                   cutoff_date, new_concepts, runs>>
    /\ UNCHANGED <<retry_vars, calls, crit_vars, scan_vars>>

\* Steps D-E raise (os.makedirs, open, write are not guarded): the run ends
\* at the process boundary before step F
T_Crash ==
    /\ t_pc = "select"
    /\ t_pc' = "idle"
    /\ UNCHANGED <<now, hfile, today_str, top_concepts, history_data,
                   cutoff_date, new_concepts, runs>>
    /\ UNCHANGED <<retry_vars, calls, crit_vars, scan_vars>>

\* Step F: if top_concepts: history_data[today_str] = names; json.dump
T_Save ==
    /\ t_pc = "save"
    /\ IF ShouldSave(top_concepts)
          THEN /\ history_data' = Put(history_data, today_str, top_concepts)
               /\ hfile' = Put(history_data, today_str, top_concepts)
          ELSE UNCHANGED <<history_data, hfile>>
    /\ t_pc' = "idle"
    /\ UNCHANGED <<now, today_str, top_concepts, cutoff_date, new_concepts, runs>>
    /\ UNCHANGED <<retry_vars, calls, crit_vars, scan_vars>>

\* --------------------------------------------------------------- initial
RetryIdle ==
    /\ r_pc = "idle" /\ r_func = "test" /\ r_max = 0 /\ r_delay = 0
    /\ r_i = 0 /\ r_log = <<>> /\ r_wait = 0 /\ r_ret = Unset

CritIdle ==
    /\ c_pc = "idle" /\ df = Unset /\ df_flow = Unset /\ res = Unset

ScanIdle ==
    /\ s_pc = "idle" /\ check_list = <<>> /\ idx = 0
    /\ selected_stocks = <<>> /\ verdicts = <<>> /\ aborted = FALSE

TaskIdle ==
    /\ t_pc = "idle" /\ now = 0 /\ hfile = <<>> /\ today_str = <<>>
    /\ top_concepts = <<>> /\ history_data = <<>> /\ cutoff_date = <<>>
    /\ new_concepts = <<>> /\ runs = 0

\* ------------------------------------------------------------- SpecRetry
\* call_with_retry(func, max_retries=N, delay=D) for every N and D in bounds
InitRetry ==
    /\ \E n \in 0..MaxRetries, d \in 1..MaxDelay :
          /\ r_func = "test" /\ r_max = n /\ r_delay = d
          /\ r_i = 0 /\ r_log = <<>> /\ r_wait = 0 /\ r_ret = Unset
          /\ r_pc = IF InRange(0, n) THEN "call" ELSE "ret_none"
    /\ calls = <<>>
    /\ CritIdle /\ ScanIdle /\ TaskIdle

NextRetry == R_FuncReturns \/ R_FuncRaises \/ R_Wake \/ R_EmptyRange

SpecRetry == InitRetry /\ [][NextRetry]_vars

\* ------------------------------------------------------------------ Spec
\* The deep scan of run_strict_selection over a check_list of 0..MaxPool
\* candidates (symbols 1, 2, ...)
Init ==
    /\ RetryIdle /\ CritIdle /\ TaskIdle
    /\ calls = <<>>
    /\ s_pc = "loop"
    /\ \E n \in 0..MaxPool : check_list = [k \in 1..n |-> k]
    /\ idx = 0
    /\ selected_stocks = <<>>
    /\ verdicts = <<>>
    /\ aborted = FALSE

Next ==
    \/ S_Check \/ S_Rejected \/ S_Selected \/ S_MktCapFault \/ S_Return
    \/ C_Gates \/ C_FlowGate
    \/ R_FuncReturns \/ R_FuncRaises \/ R_Wake

Spec == Init /\ [][Next]_vars

\* ---------------------------------------------------------- SpecCriteria
\* check_stock_criteria on one candidate, for every table the providers
\* can return
InitCriteria ==
    /\ RetryIdle /\ CritIdle /\ TaskIdle
    /\ calls = <<>>
    /\ s_pc = "loop"
    /\ check_list = <<1>>
    /\ idx = 0
    /\ selected_stocks = <<>>
    /\ verdicts = <<>>
    /\ aborted = FALSE

SpecCriteria == InitCriteria /\ [][Next]_vars

\* ----------------------------------------------------------- SpecHistory
\* Runs of run_task over the days FirstDay..LastDay, from no history file
\* or from the file an earlier run left the day before
InitHistory ==
    /\ RetryIdle /\ CritIdle /\ ScanIdle
    /\ calls = <<>>
    /\ t_pc = "idle"
    /\ now = FirstDay
    /\ hfile \in {<<>>, Put(<<>>, strftime(FirstDay - 1), <<"B">>)}
    /\ today_str = <<>>
    /\ top_concepts = <<>>
    /\ history_data = <<>>
    /\ cutoff_date = <<>>
    /\ new_concepts = <<>>
    /\ runs = 0

NextHistory ==
    \/ Tick
    \/ T_Start \/ T_Sector \/ T_Load \/ T_Detect \/ T_Select \/ T_Crash \/ T_Save

SpecHistory == InitHistory /\ [][NextHistory]_vars

\* ------------------------------------------- the claims' own vocabulary
\* The history fetch succeeded with at least 5 bars that have the columns
HistUsable(t) == t.kind = "table" /\ t.cols /\ t.n >= 5

NoRedCandle(t) == \A k \in 1..3 : t.bars[k].close >= t.bars[k].open

EachPctPositive(t) == \A k \in 1..3 : t.bars[k].pct > 0

Rise3(t) == t.bars[1].pct + t.bars[2].pct + t.bars[3].pct

VolToday(t) == t.bars[3].vol
VolYest(t) == t.bars[2].vol

\* The sum of the last three entries of q (of all of them when fewer)
Last3Sum(q) ==
    CASE Len(q) = 0 -> 0
      [] Len(q) = 1 -> q[1]
      [] Len(q) = 2 -> q[1] + q[2]
      [] OTHER -> q[Len(q) - 2] + q[Len(q) - 1] + q[Len(q)]

\* A flow table was fetched and its last-3-session sum is strictly positive
FlowPositive(f) ==
    /\ f.kind = "table"
    /\ f.cols
    /\ Len(f.rows) > 0
    /\ Last3Sum(f.rows) > 0

Accepted == c_pc = "ret" /\ res # None
Returned == c_pc = "ret"

\* ------------------------------------------------------------------- C1
\* C1: call_with_retry(func, max_retries=N), N >= 1, invokes func at most N
\* times; the first invocation that succeeds is the last one and its value
\* is what is returned; when all N invocations fail the return value is
\* None; and the call never raises to its caller.
C1_RetryContract ==
    r_max >= 1 =>
        /\ Len(r_log) <= r_max
        /\ r_pc # "raised"
        /\ \A k \in 1..Len(r_log) :
              r_log[k] # Exc => /\ k = Len(r_log)
                                /\ r_pc = "ret"
                                /\ r_ret = r_log[k]
        /\ r_pc = "ret" =>
              \/ /\ r_log # <<>>
                 /\ r_log[Len(r_log)] # Exc
                 /\ r_ret = r_log[Len(r_log)]
              \/ /\ Len(r_log) = r_max
                 /\ \A k \in 1..Len(r_log) : r_log[k] = Exc
                 /\ r_ret = None

\* Three attempts, the first two failed, the third one's value returned
C1_Witness ==
    /\ r_pc = "ret" /\ r_max = 4 /\ Len(r_log) = 3
    /\ r_log[1] = Exc /\ r_log[2] = Exc
    /\ r_ret \in TestResults

\* ------------------------------------------------------------------- C2
\* C2 as claimed: a candidate with at least 5 bars, no red candle in the
\* last 3 sessions, a cumulative rise strictly between 0 and 10, a volume
\* ratio strictly between 1.0 and 3.0 and (when the flow is fetched) a
\* positive 3-session flow is accepted.
C2_Original ==
    ( /\ Returned
      /\ HistUsable(df)
      /\ NoRedCandle(df)
      /\ Rise3(df) > 0 /\ Rise3(df) < 10
      /\ VolToday(df) > VolYest(df) /\ VolToday(df) < 3 * VolYest(df)
      /\ (df_flow = Unset \/ FlowPositive(df_flow)) )
    => res # None

\* C2 as amended: the same, provided also that each of the 3 sessions has a
\* strictly positive percent change; then the function reaches the flow
\* fetch and, with a positive flow sum, returns a result.
C2_Amended ==
    ( /\ Returned
      /\ HistUsable(df)
      /\ NoRedCandle(df)
      /\ EachPctPositive(df)
      /\ Rise3(df) > 0 /\ Rise3(df) < 10
      /\ VolToday(df) > VolYest(df) /\ VolToday(df) < 3 * VolYest(df) )
    => /\ df_flow # Unset
       /\ FlowPositive(df_flow) => res # None

C2_Witness ==
    /\ Returned
    /\ HistUsable(df) /\ df.n = 5
    /\ NoRedCandle(df)
    /\ EachPctPositive(df)
    /\ Rise3(df) = 8
    /\ VolToday(df) = 2 /\ VolYest(df) = 1
    /\ df_flow # Unset
    /\ FlowPositive(df_flow)
    /\ res # None

\* ------------------------------------------------------------------- C5
\* C5: once the history table of a candidate shows a prior-day volume of
\* zero, the evaluation is at its return with the value None: it goes to no
\* further fetch, raises nothing and the scan is not aborted.
C5_ZeroPriorVolume ==
    (HistUsable(df) /\ VolYest(df) = 0) =>
        /\ c_pc = "ret"
        /\ res = None
        /\ ~aborted

\* Every earlier gate passed, so it is the volume gate that rejects
C5_Witness ==
    /\ Returned
    /\ HistUsable(df)
    /\ NoRedCandle(df) /\ EachPctPositive(df) /\ Rise3(df) < 10
    /\ VolYest(df) = 0 /\ VolToday(df) = 2
    /\ res = None

\* ------------------------------------------------------------------- C6
\* C6: a result is returned only with a flow table that was fetched, has
\* the column and at least one row, and whose last-3-session sum is
\* strictly positive; a failed fetch, an empty table and a sum <= 0 all
\* return None.
C6_FlowGate ==
    /\ Accepted => FlowPositive(df_flow)
    /\ (Returned /\ df_flow # Unset /\ ~FlowPositive(df_flow)) => res = None

\* Accepted on the last three rows although the whole table sums to 0
C6_Witness ==
    /\ Accepted
    /\ Len(df_flow.rows) = 4
    /\ df_flow.rows[1] = -1
    /\ Last3Sum(df_flow.rows) = 1

\* ------------------------------------------------------------------- C9
\* C9: the flow provider is called only after a history table with at least
\* 5 bars has passed the trend, magnitude and volume gates, and after every
\* history call; a candidate whose history fetch failed or returned fewer
\* than 5 bars is at its return with no flow call and at most 3 calls.
C9_GateOrder ==
    /\ \A k \in 1..Len(calls) :
          calls[k] = "stock_individual_fund_flow" =>
              /\ HistUsable(df)
              /\ NoRedCandle(df) /\ EachPctPositive(df)
              /\ Rise3(df) < 10
              /\ VolToday(df) > VolYest(df) /\ VolToday(df) <= 3 * VolYest(df)
              /\ k > 1
              /\ \A j \in k..Len(calls) : calls[j] = "stock_individual_fund_flow"
    /\ (df.kind = "None" \/ (df.kind = "table" /\ df.n < 5)) =>
          /\ c_pc = "ret"
          /\ res = None
          /\ Len(calls) <= 3
          /\ \A k \in 1..Len(calls) : calls[k] = "stock_zh_a_hist_df_cf"

\* The history came at the third attempt and the flow was then called
C9_Witness ==
    /\ Returned
    /\ Len(calls) = 5
    /\ calls[3] = "stock_zh_a_hist_df_cf"
    /\ calls[4] = "stock_individual_fund_flow"

\* ------------------------------------------------------------------ C10
\* C10: every returned result has, over the last 3 sessions, close >= open
\* and a strictly positive percent change in each, a cumulative rise
\* strictly between 0 and 10, and today's volume
\* strictly above yesterday's and at most 3 times it; a volume of exactly 3
\* times yesterday's does not stop a candidate that passes the rest.
C10_AcceptedResult ==
    /\ Accepted =>
          /\ HistUsable(df)
          /\ NoRedCandle(df)
          /\ EachPctPositive(df)
          /\ Rise3(df) > 0 /\ Rise3(df) < 10
          /\ VolToday(df) > VolYest(df)
          /\ VolToday(df) <= 3 * VolYest(df)
    /\ ( /\ Returned
         /\ HistUsable(df)
         /\ NoRedCandle(df) /\ EachPctPositive(df) /\ Rise3(df) < 10
         /\ VolYest(df) > 0 /\ VolToday(df) = 3 * VolYest(df) )
       => /\ df_flow # Unset
          /\ FlowPositive(df_flow) => res # None

\* A result whose volume is exactly 3 times yesterday's
C10_Witness ==
    /\ Accepted
    /\ VolYest(df) = 1 /\ VolToday(df) = 3
    /\ \E k \in 1..3 : df.bars[k].close = df.bars[k].open

\* ------------------------------------------------------------- C3 and C7
NoneCount(v) == Cardinality({k \in 1..Len(v) : v[k] = "None"})

\* C3: when the scan has ended, every candidate entered has one verdict,
\* and the rejected ones plus the accepted results number the candidates
\* entered.
C3_Original ==
    s_pc = "done" =>
        /\ Len(verdicts) = Len(check_list)
        /\ NoneCount(verdicts) + Len(selected_stocks) = Len(check_list)

\* C7: a fault while one candidate is evaluated never keeps a later
\* candidate from being evaluated: the scan ends only with the loop at the
\* end of check_list.
C7_Original ==
    s_pc = "done" => idx = Len(check_list)

\* ------------------------------------------------------------------- C4
Days == 1..LastDay

\* The day whose date string is s
DayOfStr(s) == CHOOSE k \in Days : strftime(k) = s

\* The date d lies later than today minus 5 days
WithinWindow(d) ==
    \E k \in Days : strftime(k) = d /\ k > DayOfStr(today_str) - 5

Detected == t_pc \in {"select", "save"}

Recurring(n) ==
    \E d \in DOMAIN history_data :
        /\ WithinWindow(d)
        /\ d # today_str
        /\ InList(n, history_data[d])

\* C4: after the novelty step a sector name is in new_concepts exactly when
\* it is in today's top list and in no history entry dated later than today
\* minus 5 days other than today's.
C4_Original ==
    Detected =>
        \A n \in Names :
            InList(n, new_concepts) <=> (InList(n, top_concepts) /\ ~Recurring(n))

\* The same holds of every run in which the date did not change between the
\* two readings of the clock (kept beside C4 to locate the divergence).
C4_SameDate ==
    (Detected /\ cutoff_date = strftime(DayOfStr(today_str) - RetentionDays)) =>
        \A n \in Names :
            InList(n, new_concepts) <=> (InList(n, top_concepts) /\ ~Recurring(n))

\* ------------------------------------------------------------------- C8
NoEmptyEntry == \A d \in DOMAIN hfile : hfile[d] # <<>>

\* The history file changes only in step F of a run whose top list is not
\* empty, to the loaded history with today's entry set to the top list
WriteOnlyAtEnd ==
    hfile' # hfile =>
        /\ t_pc = "save"
        /\ top_concepts # <<>>
        /\ hfile' = Put(history_data, today_str, top_concepts)

\* The novelty step changes neither the loaded history nor the file
DetectorReadsOnly ==
    t_pc = "detect" => (history_data' = history_data /\ hfile' = hfile)

\* C8: the history file never holds an entry with an empty sector list; it
\* is written only at the end of a run and only with a non-empty top list,
\* today's entry being overwritten; the novelty step mutates no history.
C8_History ==
    /\ []NoEmptyEntry
    /\ [][WriteOnlyAtEnd /\ DetectorReadsOnly]_vars

\* A second run on a day that already has an entry ended without a write
\* because its top list was empty; the entry is still there
C8_Witness ==
    /\ t_pc = "idle"
    /\ runs >= 2
    /\ top_concepts = <<>>
    /\ today_str \in DOMAIN hfile
    /\ hfile[today_str] # <<>>

====
